---------------------------- MODULE Spec2Model ----------------------------
(***************************************************************************)
(* Model of the order matching engine of src/main.cpp: the OrderBook class *)
(* (two priority queues and lastTradedPrice), the ingestion loop of main   *)
(* and the residual report written at session close.                       *)
(*                                                                         *)
(* Prices are doubles in the program.  The engine never does arithmetic on *)
(* a price (it only compares and copies them), so a price is modelled as   *)
(* an integer number of thousandths.  Only the text written to the output  *)
(* file rounds a price, to two decimals (FormatPrice).                     *)
(***************************************************************************)
EXTENDS Integers, Sequences, FiniteSets

VARIABLES
    buyOrders,        \* OrderBook::buyOrders, the content of the priority queue
    sellOrders,       \* OrderBook::sellOrders
    lastTradedPrice,  \* OrderBook::lastTradedPrice
    timestamp,        \* main: int timestamp, the number of lines read so far
    output,           \* the records written to the output file, in order
    pc,               \* where main is: "idle", "matching", "closed"
    submitted,        \* the Order parsed from each line, by timestamp
    trades            \* the locals of each executed iteration of matchOrders

vars == <<buyOrders, sellOrders, lastTradedPrice, timestamp, output, pc,
          submitted, trades>>

(***************************************************************************)
(* Bounds of the model.                                                    *)
(***************************************************************************)
MaxOrders == 3      \* number of input lines of a session
MaxQty == 2         \* largest quantity on an input line
MaxLongOrders == 4  \* number of input lines of a long session

\* Limit prices on the input lines, in thousandths (0.000, 1.000, 2.004).
LimitPrices == {0, 1000, 2004}
\* A limit price the ingestion contract excludes (-1.000).
NegativePrices == {-1000}
\* Quantities the ingestion contract excludes.
BadQuantities == {-1, 0}
\* The session value on the first line of the input (1.500).
SeedPrices == {1500}

(***************************************************************************)
(* Input lines: <id> <B|S> <quantity> [<limitPrice>].  The id of the n-th  *)
(* line is <<"O", n>>: ids are unique, one per line.                       *)
(***************************************************************************)
LinesOver(quantities, prices) ==
    [type : {"B", "S"}, quantity : quantities, hasPrice : {TRUE}, price : prices]
        \cup
    [type : {"B", "S"}, quantity : quantities, hasPrice : {FALSE}, price : {0}]

ValidLines == LinesOver(1..MaxQty, LimitPrices)

\* The lines of the long sessions: two quantities, two limit prices.
PlainLines == LinesOver({1, 2}, {1000, 2004})

AnyLines == LinesOver(BadQuantities \cup (1..MaxQty), NegativePrices \cup LimitPrices)

parseOrder(line, ts) ==
    [id            |-> <<"O", ts>>,
     type          |-> line.type,
     quantity      |-> line.quantity,
     limitPrice    |-> IF line.hasPrice THEN line.price ELSE 0,
     isMarketOrder |-> ~line.hasPrice,
     timestamp     |-> ts]

(***************************************************************************)
(* Order::operator<, the ordering of both priority queues.                 *)
(***************************************************************************)
LessNewerFirst(a, b) ==
    IF a.limitPrice # b.limitPrice
    THEN IF a.type = "B" THEN a.limitPrice < b.limitPrice
                         ELSE a.limitPrice > b.limitPrice
    ELSE a.timestamp < b.timestamp

LessPriceInverted(a, b) ==
    IF a.limitPrice # b.limitPrice
    THEN IF a.type = "B" THEN a.limitPrice > b.limitPrice
                         ELSE a.limitPrice < b.limitPrice
    ELSE a.timestamp > b.timestamp

LessMarketFirst(a, b) ==
    IF a.isMarketOrder # b.isMarketOrder THEN b.isMarketOrder
    ELSE IF a.limitPrice # b.limitPrice
    THEN IF a.type = "B" THEN a.limitPrice < b.limitPrice
                         ELSE a.limitPrice > b.limitPrice
    ELSE a.timestamp > b.timestamp

LessOneSided(a, b) ==
    IF a.limitPrice # b.limitPrice
    THEN a.limitPrice < b.limitPrice
    ELSE a.timestamp > b.timestamp

Less(a, b) ==
    IF a.limitPrice # b.limitPrice
    THEN IF a.type = "B" THEN a.limitPrice < b.limitPrice
                         ELSE a.limitPrice > b.limitPrice
    ELSE a.timestamp > b.timestamp

(***************************************************************************)
(* std::priority_queue<Order>: top() is the greatest element under         *)
(* operator<.  The orders of one queue have distinct timestamps, so        *)
(* operator< orders them totally and the queue is modelled by the set of   *)
(* its elements.                                                           *)
(***************************************************************************)
TopOldest(q) == CHOOSE o \in q : \A p \in q : o.timestamp <= p.timestamp

Top(q) == CHOOSE o \in q : \A p \in q \ {o} : Less(p, o)

Pop(q) == q \ {Top(q)}

Push(q, o) == q \cup {o}

(***************************************************************************)
(* OrderBook::canMatch and OrderBook::determinePrice.                      *)
(***************************************************************************)
canMatchStrict(buy, sell) ==
    buy.isMarketOrder \/ sell.isMarketOrder \/ buy.limitPrice > sell.limitPrice

canMatch(buy, sell) ==
    buy.isMarketOrder \/ sell.isMarketOrder \/ buy.limitPrice >= sell.limitPrice

determinePriceNewer(buy, sell, last) ==
    IF ~buy.isMarketOrder /\ ~sell.isMarketOrder
    THEN IF buy.timestamp > sell.timestamp THEN buy.limitPrice ELSE sell.limitPrice
    ELSE IF ~buy.isMarketOrder THEN buy.limitPrice
    ELSE IF ~sell.isMarketOrder THEN sell.limitPrice
    ELSE last

determinePriceNoCarry(buy, sell, last) ==
    IF ~buy.isMarketOrder /\ ~sell.isMarketOrder
    THEN IF buy.timestamp < sell.timestamp THEN buy.limitPrice ELSE sell.limitPrice
    ELSE IF ~buy.isMarketOrder THEN buy.limitPrice
    ELSE sell.limitPrice

determinePriceLastForMarket(buy, sell, last) ==
    IF ~buy.isMarketOrder /\ ~sell.isMarketOrder
    THEN IF buy.timestamp < sell.timestamp THEN buy.limitPrice ELSE sell.limitPrice
    ELSE last

determinePrice(buy, sell, last) ==
    IF ~buy.isMarketOrder /\ ~sell.isMarketOrder
    THEN IF buy.timestamp < sell.timestamp THEN buy.limitPrice ELSE sell.limitPrice
    ELSE IF ~buy.isMarketOrder THEN buy.limitPrice
    ELSE IF ~sell.isMarketOrder THEN sell.limitPrice
    ELSE last

(***************************************************************************)
(* std::fixed << std::setprecision(2): the price rounded to hundredths.    *)
(* The result is a number of hundredths.  A price whose third decimal is 5 *)
(* rounds by its binary representation; the input prices have none.        *)
(***************************************************************************)
FormatPrice(p) ==
    IF p >= 0 THEN (p + 5) \div 10 ELSE -((-p + 5) \div 10)

(***************************************************************************)
(* The body of one iteration of the loop of matchOrders.                   *)
(***************************************************************************)
tradedQuantityMax(buy, sell) ==
    IF buy.quantity > sell.quantity THEN buy.quantity ELSE sell.quantity

tradedQuantityOne(buy, sell) == 1

tradedQuantity(buy, sell) ==
    IF sell.quantity < buy.quantity THEN sell.quantity ELSE buy.quantity

\* if (o.quantity > tradedQuantity) { o.quantity -= tradedQuantity; q.push(o); }
ReinsertEmptied(q, o, traded) ==
    IF o.quantity >= traded
    THEN Push(q, [o EXCEPT !.quantity = o.quantity - traded])
    ELSE q

ReinsertUnreduced(q, o, traded) ==
    IF o.quantity > traded THEN Push(q, o) ELSE q

ReinsertRestamped(q, o, traded) ==
    IF o.quantity > traded
    THEN Push(q, [o EXCEPT !.quantity = o.quantity - traded,
                           !.timestamp = timestamp])
    ELSE q

Reinsert(q, o, traded) ==
    IF o.quantity > traded
    THEN Push(q, [o EXCEPT !.quantity = o.quantity - traded])
    ELSE q

TradeRecordsSoldFirst(buy, sell, traded, price) ==
    << [kind |-> "sold", id |-> sell.id, quantity |-> traded,
        price |-> FormatPrice(price)],
       [kind |-> "purchased", id |-> buy.id, quantity |-> traded,
        price |-> FormatPrice(price)] >>

TradeRecords(buy, sell, traded, price) ==
    << [kind |-> "purchased", id |-> buy.id, quantity |-> traded,
        price |-> FormatPrice(price)],
       [kind |-> "sold", id |-> sell.id, quantity |-> traded,
        price |-> FormatPrice(price)] >>

(***************************************************************************)
(* writeUnexecutedOrders: both queues are copied and emptied in queue      *)
(* order into one vector, which is sorted by timestamp.                    *)
(***************************************************************************)
RECURSIVE Drain(_)
Drain(q) == IF q = {} THEN <<>> ELSE <<Top(q)>> \o Drain(Pop(q))

RECURSIVE InsertByTimestamp(_, _)
InsertByTimestamp(s, o) ==
    IF s = <<>> THEN <<o>>
    ELSE IF o.timestamp < Head(s).timestamp THEN <<o>> \o s
    ELSE <<Head(s)>> \o InsertByTimestamp(Tail(s), o)

RECURSIVE SortByTimestamp(_)
SortUnsorted(s) == s

SortByTimestamp(s) ==
    IF s = <<>> THEN <<>>
    ELSE InsertByTimestamp(SortByTimestamp(Tail(s)), Head(s))

UnexecutedRecords(s) ==
    [i \in 1..Len(s) |->
        [kind |-> "unexecuted", id |-> s[i].id, quantity |-> s[i].quantity,
         price |-> 0]]

(***************************************************************************)
(* The state after OrderBook orderBook(initialPrice) and before the first  *)
(* line is read.                                                           *)
(***************************************************************************)
Init ==
    /\ buyOrders = {}
    /\ sellOrders = {}
    /\ lastTradedPrice \in SeedPrices
    /\ timestamp = 0
    /\ output = <<>>
    /\ pc = "idle"
    /\ submitted = <<>>
    /\ trades = <<>>

\* OrderBook::addOrder
addOrder(order) ==
    IF order.type = "B"
    THEN /\ buyOrders' = Push(buyOrders, order)
         /\ sellOrders' = sellOrders
    ELSE /\ sellOrders' = Push(sellOrders, order)
         /\ buyOrders' = buyOrders

\* main: one line is read, parsed and added; matchOrders is entered.
SubmitLine(line, lines) ==
    /\ pc = "idle"
    /\ timestamp < lines
    /\ timestamp' = timestamp + 1
    /\ LET order == parseOrder(line, timestamp + 1) IN
         /\ addOrder(order)
         /\ submitted' = Append(submitted, order)
    /\ pc' = "matching"
    /\ UNCHANGED <<lastTradedPrice, output, trades>>

Submit == \E line \in ValidLines : SubmitLine(line, MaxOrders)

SubmitAny == \E line \in AnyLines : SubmitLine(line, MaxOrders)

SubmitLong == \E line \in PlainLines : SubmitLine(line, MaxLongOrders)

SubmitPlain == \E line \in PlainLines : SubmitLine(line, MaxOrders)

CanTradeScoped ==
    /\ buyOrders # {}
    /\ sellOrders # {}
    /\ canMatch(Top(buyOrders), Top(sellOrders))
    /\ timestamp \in {Top(buyOrders).timestamp, Top(sellOrders).timestamp}

\* matchOrders: the loop condition and the canMatch test of one iteration.
CanTrade ==
    /\ buyOrders # {}
    /\ sellOrders # {}
    /\ canMatch(Top(buyOrders), Top(sellOrders))

TradeStepStalePrice ==
    /\ pc = "matching"
    /\ CanTrade
    /\ LET buy == Top(buyOrders)
           sell == Top(sellOrders)
           traded == tradedQuantity(buy, sell)
           executionPrice == determinePrice(buy, sell, lastTradedPrice)
       IN
         /\ output' = output \o TradeRecords(buy, sell, traded, executionPrice)
         /\ buyOrders' = Reinsert(Pop(buyOrders), buy, traded)
         /\ sellOrders' = Reinsert(Pop(sellOrders), sell, traded)
         /\ trades' = Append(trades,
                [buy |-> buy, sell |-> sell, tradedQuantity |-> traded,
                 executionPrice |-> executionPrice,
                 priorPrice |-> lastTradedPrice,
                 during |-> timestamp])
    /\ UNCHANGED <<lastTradedPrice, timestamp, pc, submitted>>

\* matchOrders: one iteration that trades.
TradeStep ==
    /\ pc = "matching"
    /\ CanTrade
    /\ LET buy == Top(buyOrders)
           sell == Top(sellOrders)
           traded == tradedQuantity(buy, sell)
           executionPrice == determinePrice(buy, sell, lastTradedPrice)
       IN
         /\ lastTradedPrice' = executionPrice
         /\ output' = output \o TradeRecords(buy, sell, traded, executionPrice)
         /\ buyOrders' = Reinsert(Pop(buyOrders), buy, traded)
         /\ sellOrders' = Reinsert(Pop(sellOrders), sell, traded)
         /\ trades' = Append(trades,
                [buy |-> buy, sell |-> sell, tradedQuantity |-> traded,
                 executionPrice |-> executionPrice,
                 priorPrice |-> lastTradedPrice,
                 during |-> timestamp])
    /\ UNCHANGED <<timestamp, pc, submitted>>

\* matchOrders: the loop ends (a queue is empty, or the break) and returns.
SweepEnd ==
    /\ pc = "matching"
    /\ ~CanTrade
    /\ pc' = "idle"
    /\ UNCHANGED <<buyOrders, sellOrders, lastTradedPrice, timestamp, output,
                   submitted, trades>>

\* main: getline fails (end of input), writeUnexecutedOrders is called.
Unexecuted == SortByTimestamp(Drain(buyOrders) \o Drain(sellOrders))

writeUnexecutedOrders ==
    /\ pc = "idle"
    /\ output' = output \o UnexecutedRecords(Unexecuted)
    /\ pc' = "closed"
    /\ UNCHANGED <<buyOrders, sellOrders, lastTradedPrice, timestamp,
                   submitted, trades>>

Next == Submit \/ TradeStep \/ SweepEnd \/ writeUnexecutedOrders

Spec == Init /\ [][Next]_vars

\* The engine fed any parseable line, valid or not.
NextAny == SubmitAny \/ TradeStep \/ SweepEnd \/ writeUnexecutedOrders

SpecAny == Init /\ [][NextAny]_vars

\* Longer sessions of plainer lines.
NextLong == SubmitLong \/ TradeStep \/ SweepEnd \/ writeUnexecutedOrders

LongSpec == Init /\ [][NextLong]_vars

\* The single thread of main always runs the loop of matchOrders on; whether
\* another line follows is the input's choice.
NextPlain == SubmitPlain \/ TradeStep \/ SweepEnd \/ writeUnexecutedOrders

LiveSpec ==
    Init /\ [][NextPlain]_vars /\ WF_vars(TradeStep) /\ WF_vars(SweepEnd)

(***************************************************************************)
(* Vocabulary of the properties.                                           *)
(***************************************************************************)
Book == buyOrders \cup sellOrders

IsTrade(r) == r.kind \in {"purchased", "sold"}

\* The sum of the quantities of the records of s that name id and are of a
\* kind in kinds.
RECURSIVE RecordedFor(_, _, _)
RecordedFor(s, id, kinds) ==
    IF s = <<>> THEN 0
    ELSE (IF Head(s).id = id /\ Head(s).kind \in kinds THEN Head(s).quantity ELSE 0)
         + RecordedFor(Tail(s), id, kinds)

\* The total quantity resting in a queue.
RECURSIVE Resting(_)
Resting(q) ==
    IF q = {} THEN 0
    ELSE LET o == CHOOSE x \in q : TRUE IN o.quantity + Resting(q \ {o})

\* The glossary's crossing of a buy and a sell.
Crossing(b, a) ==
    b.isMarketOrder \/ a.isMarketOrder \/ b.limitPrice >= a.limitPrice

\* A step that executes a trade, and the trade it executes.
TradeExecutes == Len(trades') = Len(trades) + 1

NewTrade == trades'[Len(trades')]

LastTrade == trades[Len(trades)]

\* The trades executed by the sweep of the latest submit.
SweepTrades == {i \in 1..Len(trades) : trades[i].during = timestamp}

\* b is ranked strictly before a on its side by price, then by arrival.
Precedes(b, a) ==
    \/ IF a.type = "B" THEN b.limitPrice > a.limitPrice
                       ELSE b.limitPrice < a.limitPrice
    \/ b.limitPrice = a.limitPrice /\ b.timestamp < a.timestamp

\* C1: at session close, for every submitted order, the quantities of the
\* trade records naming it plus the quantity of its unexecuted record (0 if
\* it has none) equal the quantity it was submitted with.
C1_Conservation ==
    pc = "closed" =>
        \A i \in 1..Len(submitted) :
            RecordedFor(output, submitted[i].id, {"purchased", "sold"})
              + RecordedFor(output, submitted[i].id, {"unexecuted"})
            = submitted[i].quantity

\* An order is partly filled and reported with its remainder, and another
\* is filled completely.
C1_Witness ==
    /\ pc = "closed"
    /\ \E i \in 1..Len(submitted) :
          /\ RecordedFor(output, submitted[i].id, {"purchased", "sold"}) > 0
          /\ RecordedFor(output, submitted[i].id, {"unexecuted"}) > 0
    /\ \E i \in 1..Len(submitted) :
          RecordedFor(output, submitted[i].id, {"purchased", "sold"})
            = submitted[i].quantity

\* C2: when a submit has returned, one queue is empty or the best bid and
\* the best ask are both limit orders with best-bid limitPrice below
\* best-ask limitPrice.
C2_NoCrossAtTop ==
    (pc = "idle" /\ timestamp > 0) =>
        \/ buyOrders = {}
        \/ sellOrders = {}
        \/ /\ ~Top(buyOrders).isMarketOrder
           /\ ~Top(sellOrders).isMarketOrder
           /\ Top(buyOrders).limitPrice < Top(sellOrders).limitPrice

\* A sweep has traded and has stopped at the cross test with both queues
\* still holding orders.
C2_Witness ==
    /\ pc = "idle"
    /\ SweepTrades # {}
    /\ buyOrders # {}
    /\ sellOrders # {}

\* C3 as stated: when a submit has returned, no resting buy and resting sell
\* anywhere in the book are crossing.
C3_NoCrossAnywhere ==
    (pc = "idle" /\ timestamp > 0) =>
        \A b \in buyOrders, a \in sellOrders : ~Crossing(b, a)

\* C3 as amended: when a submit has returned, every crossing pair left in
\* the book holds a market order that is not the best order of its side;
\* no two limit orders cross and the top of the book does not cross.
C3_CrossOnlyBelowTop ==
    (pc = "idle" /\ timestamp > 0) =>
        \A b \in buyOrders, a \in sellOrders :
            Crossing(b, a) =>
                \/ b.isMarketOrder /\ b # Top(buyOrders)
                \/ a.isMarketOrder /\ a # Top(sellOrders)

\* A submit has returned with a market buy resting below the best bid and
\* a sell resting: a crossing pair the sweep has left in the book.
C3_Witness ==
    /\ pc = "idle"
    /\ \E b \in buyOrders, a \in sellOrders :
          b.isMarketOrder /\ b # Top(buyOrders) /\ Crossing(b, a)

\* C4: in every trade of two limit orders the execution price is the
\* limitPrice of the one with the lower arrival sequence.
C4_EarlierLimitSetsPrice ==
    \A i \in 1..Len(trades) :
        LET t == trades[i] IN
        (~t.buy.isMarketOrder /\ ~t.sell.isMarketOrder) =>
            t.executionPrice =
                IF t.buy.timestamp < t.sell.timestamp THEN t.buy.limitPrice
                                                      ELSE t.sell.limitPrice

\* Two limit orders of different prices have traded, once with the buy the
\* earlier one and once with the sell the earlier one.
C4_Witness ==
    /\ \E i \in 1..Len(trades) :
          /\ ~trades[i].buy.isMarketOrder /\ ~trades[i].sell.isMarketOrder
          /\ trades[i].buy.limitPrice # trades[i].sell.limitPrice
          /\ trades[i].buy.timestamp < trades[i].sell.timestamp
    /\ \E i \in 1..Len(trades) :
          /\ ~trades[i].buy.isMarketOrder /\ ~trades[i].sell.isMarketOrder
          /\ trades[i].buy.limitPrice # trades[i].sell.limitPrice
          /\ trades[i].sell.timestamp < trades[i].buy.timestamp

\* C5: a market buy trades with a limit sell at the sell's limitPrice, a
\* market sell with a limit buy at the buy's limitPrice, and two market
\* orders at the lastTradedPrice held just before the trade: the price of
\* the trade before it, or the session seed for the first trade.
C5_MarketPrice ==
    \A i \in 1..Len(trades) :
        LET t == trades[i] IN
        /\ (t.buy.isMarketOrder /\ ~t.sell.isMarketOrder) =>
               t.executionPrice = t.sell.limitPrice
        /\ (t.sell.isMarketOrder /\ ~t.buy.isMarketOrder) =>
               t.executionPrice = t.buy.limitPrice
        /\ (t.buy.isMarketOrder /\ t.sell.isMarketOrder) =>
               /\ i = 1 => t.executionPrice \in SeedPrices
               /\ i > 1 => t.executionPrice = trades[i - 1].executionPrice
               /\ i = Len(trades) => lastTradedPrice = t.executionPrice

\* Two market orders have traded after an earlier trade at a price that is
\* not the seed, a market buy has traded with a limit sell and a market sell
\* with a limit buy.
C5_Witness ==
    /\ \E i \in 2..Len(trades) :
          /\ trades[i].buy.isMarketOrder /\ trades[i].sell.isMarketOrder
          /\ trades[i - 1].executionPrice \notin SeedPrices
    /\ \E i \in 1..Len(trades) :
          \/ trades[i].buy.isMarketOrder /\ ~trades[i].sell.isMarketOrder
          \/ trades[i].sell.isMarketOrder /\ ~trades[i].buy.isMarketOrder

\* C6: when a trade executes, no limit order resting on the side of a
\* traded limit order precedes it by price, or at equal price by arrival.
C6_PriceTimePriority ==
    [][TradeExecutes =>
        /\ ~NewTrade.buy.isMarketOrder =>
              \A o \in buyOrders :
                  ~o.isMarketOrder => ~Precedes(o, NewTrade.buy)
        /\ ~NewTrade.sell.isMarketOrder =>
              \A o \in sellOrders :
                  ~o.isMarketOrder => ~Precedes(o, NewTrade.sell)
      ]_vars

\* A trade has taken a limit buy ahead of a resting limit buy of lower
\* price, or a limit sell ahead of a resting limit sell of equal price and
\* later arrival, the order taken being a remainder reinserted earlier.
C6_Witness ==
    /\ trades # <<>>
    /\ \/ /\ ~LastTrade.buy.isMarketOrder
          /\ LastTrade.buy.quantity < submitted[LastTrade.buy.timestamp].quantity
          /\ \E o \in buyOrders :
                /\ ~o.isMarketOrder
                /\ o.timestamp < LastTrade.buy.timestamp
                /\ o.limitPrice < LastTrade.buy.limitPrice
       \/ /\ ~LastTrade.sell.isMarketOrder
          /\ LastTrade.sell.quantity < submitted[LastTrade.sell.timestamp].quantity
          /\ \E o \in sellOrders :
                /\ ~o.isMarketOrder
                /\ o.timestamp > LastTrade.sell.timestamp
                /\ o.limitPrice = LastTrade.sell.limitPrice

\* C7: the submit of an order with quantity <= 0 or a negative limitPrice
\* leaves both queues, lastTradedPrice and the records as they were.
C7_InvalidRejected ==
    [][(Len(submitted') = Len(submitted) + 1
          /\ LET order == submitted'[Len(submitted')] IN
                order.quantity <= 0 \/ order.limitPrice < 0)
        => UNCHANGED <<buyOrders, sellOrders, lastTradedPrice, output>>
      ]_vars

\* C8: at session close the records are the trade records followed by the
\* unexecuted records, one for each order resting in either queue, in
\* strictly ascending arrival sequence.
C8_ResidualOrdering ==
    pc = "closed" =>
        \E k \in 0..Len(output) :
            /\ \A i \in 1..k : IsTrade(output[i])
            /\ \A i \in (k + 1)..Len(output) : output[i].kind = "unexecuted"
            /\ Len(output) - k = Cardinality(Book)
            /\ \A o \in Book :
                  \E i \in (k + 1)..Len(output) :
                      output[i].id = o.id /\ output[i].quantity = o.quantity
            /\ \A i, j \in (k + 1)..Len(output) :
                  i < j =>
                    \E m, n \in 1..Len(submitted) :
                        /\ submitted[m].id = output[i].id
                        /\ submitted[n].id = output[j].id
                        /\ submitted[m].timestamp < submitted[n].timestamp

\* The session closes after a trade with a buy and an earlier sell resting:
\* the queues are emptied buys first, the report lists the sell first.
C8_Witness ==
    /\ pc = "closed"
    /\ trades # <<>>
    /\ \E b \in buyOrders, a \in sellOrders : a.timestamp < b.timestamp

\* C9: every trade executes a quantity >= 1 and lowers the total quantity
\* resting in the two queues by twice that quantity, and every sweep
\* returns.
C9_SweepTerminates ==
    /\ [][TradeExecutes =>
            /\ NewTrade.tradedQuantity >= 1
            /\ Resting(buyOrders') + Resting(sellOrders')
                 = Resting(buyOrders) + Resting(sellOrders)
                     - 2 * NewTrade.tradedQuantity
         ]_vars
    /\ [](pc = "matching" => <>(pc = "idle"))

\* A sweep of two trades has returned.
C9_Witness ==
    /\ pc = "idle"
    /\ Cardinality(SweepTrades) >= 2

\* C10: every order resting in either queue has quantity > 0, between the
\* steps of a sweep too, and an order a trade has filled completely rests
\* in no queue.
C10_PositiveResting ==
    /\ \A o \in Book : o.quantity > 0
    /\ \A i \in 1..Len(trades) :
          LET t == trades[i] IN
          /\ t.buy.quantity = t.tradedQuantity =>
                \A o \in Book : o.id # t.buy.id
          /\ t.sell.quantity = t.tradedQuantity =>
                \A o \in Book : o.id # t.sell.id

\* Within a sweep a trade has filled one order completely and reinserted
\* the remainder of the other.
C10_Witness ==
    /\ pc = "matching"
    /\ trades # <<>>
    /\ LastTrade.buy.quantity # LastTrade.sell.quantity
    /\ \E o \in Book :
          /\ o.id \in {LastTrade.buy.id, LastTrade.sell.id}
          /\ o.quantity < submitted[o.timestamp].quantity

\* C11: whenever the bid queue holds a market buy and a limit buy with
\* limitPrice > 0, the best bid is not a market buy, whichever of them
\* arrived first.
C11_MarketBuyNotBest ==
    (\E m, l \in buyOrders :
        m.isMarketOrder /\ ~l.isMarketOrder /\ l.limitPrice > 0)
    => ~Top(buyOrders).isMarketOrder

\* A submit has returned with a market buy resting behind a limit buy that
\* arrived after it, while the ask queue holds an order.
C11_Witness ==
    /\ pc = "idle"
    /\ sellOrders # {}
    /\ \E m, l \in buyOrders :
          /\ m.isMarketOrder
          /\ ~l.isMarketOrder /\ l.limitPrice > 0
          /\ m.timestamp < l.timestamp

\* The trade is between two orders that rested before the latest submit.
Foreign(t) == t.buy.timestamp # t.during /\ t.sell.timestamp # t.during

\* C12: the sweep is not scoped to the order just submitted: while it runs,
\* whenever the best bid and the best ask cross, its next step trades those
\* two, whether or not either is the order just submitted.
C12_SweepNotScoped ==
    [][(/\ pc = "matching"
        /\ buyOrders # {}
        /\ sellOrders # {}
        /\ Crossing(Top(buyOrders), Top(sellOrders)))
       => /\ TradeExecutes
          /\ NewTrade.buy = Top(buyOrders)
          /\ NewTrade.sell = Top(sellOrders)
      ]_vars

\* A sweep has executed a trade in which neither order is the one just
\* submitted.
C12_Witness ==
    \E i \in 1..Len(trades) : Foreign(trades[i])

\* The trade records of the output, in order.
TradeOutput == SelectSeq(output, IsTrade)

\* C13: lastTradedPrice is the execution price of the most recent trade (the
\* price its records carry, to two decimals), or the session seed while no
\* trade has executed; it changes only in a step that executes a trade.
C13_LastTradedPrice ==
    /\ [](IF trades = <<>>
          THEN lastTradedPrice \in SeedPrices
          ELSE /\ lastTradedPrice = LastTrade.executionPrice
               /\ TradeOutput[Len(TradeOutput)].price
                    = FormatPrice(lastTradedPrice))
    /\ [][lastTradedPrice' # lastTradedPrice => TradeExecutes]_vars

\* Two trades at different prices, the later one not at the seed, followed
\* by another submit that traded nothing and by the residual report.
C13_Witness ==
    /\ pc = "closed"
    /\ Len(trades) >= 2
    /\ trades[Len(trades) - 1].executionPrice # LastTrade.executionPrice
    /\ LastTrade.executionPrice \notin SeedPrices
    /\ LastTrade.during < timestamp

\* The sum of the quantities of the records of s of a kind in kinds.
RECURSIVE RecordedOf(_, _)
RecordedOf(s, kinds) ==
    IF s = <<>> THEN 0
    ELSE (IF Head(s).kind \in kinds THEN Head(s).quantity ELSE 0)
         + RecordedOf(Tail(s), kinds)

Smaller(m, n) == IF m < n THEN m ELSE n

\* C14: a trade appends exactly two records, the purchased record of the
\* best bid's id and right after it the sold record of the best ask's id,
\* both with the smaller of the two quantities and with the same price (the
\* execution price to two decimals); no other step adds a trade record, and
\* the total purchased always equals the total sold.
C14_TradeRecordPairing ==
    /\ [][TradeExecutes =>
            LET n == Len(output)
                bid == Top(buyOrders)
                ask == Top(sellOrders)
            IN  /\ Len(output') = n + 2
                /\ SubSeq(output', 1, n) = output
                /\ output'[n + 1].kind = "purchased"
                /\ output'[n + 1].id = bid.id
                /\ output'[n + 2].kind = "sold"
                /\ output'[n + 2].id = ask.id
                /\ output'[n + 1].quantity = Smaller(bid.quantity, ask.quantity)
                /\ output'[n + 2].quantity = output'[n + 1].quantity
                /\ output'[n + 2].price = output'[n + 1].price
                /\ output'[n + 1].price = FormatPrice(NewTrade.executionPrice)
         ]_vars
    /\ [][~TradeExecutes => TradeOutput' = TradeOutput]_vars
    /\ [](RecordedOf(output, {"purchased"}) = RecordedOf(output, {"sold"}))

\* Two trades have executed, the later one between orders of different
\* quantities.
C14_Witness ==
    /\ Len(trades) >= 2
    /\ Len(TradeOutput) = 4
    /\ LastTrade.buy.quantity # LastTrade.sell.quantity

\* o is the order s but for its quantity.
SameIdentity(o, s) ==
    /\ o.id = s.id
    /\ o.type = s.type
    /\ o.limitPrice = s.limitPrice
    /\ o.isMarketOrder = s.isMarketOrder
    /\ o.timestamp = s.timestamp

\* What a trade of quantity traded leaves of order o in its queue q.
AfterTrade(q, o, traded) ==
    {x \in q : x # o}
        \cup (IF o.quantity - traded = 0 THEN {}
              ELSE {[id |-> o.id, type |-> o.type,
                     quantity |-> o.quantity - traded,
                     limitPrice |-> o.limitPrice,
                     isMarketOrder |-> o.isMarketOrder,
                     timestamp |-> o.timestamp]})

\* C15: a trade changes only the two matched orders, each left with its
\* quantity less the traded quantity or removed, every other resting order
\* staying as it is; and every resting order has the id, side, limitPrice,
\* isMarketOrder and arrival sequence it was submitted with.
C15_TradeFrame ==
    /\ [][TradeExecutes =>
            /\ buyOrders' = AfterTrade(buyOrders, Top(buyOrders),
                                       NewTrade.tradedQuantity)
            /\ sellOrders' = AfterTrade(sellOrders, Top(sellOrders),
                                        NewTrade.tradedQuantity)
            /\ UNCHANGED <<timestamp, submitted>>
         ]_vars
    /\ [](\A o \in Book :
            /\ \E i \in 1..Len(submitted) : SameIdentity(o, submitted[i])
            /\ o \in buyOrders <=> o.type = "B")

\* A trade has left the remainder of an earlier order in the book beside an
\* order that rested through the trade.
C15_Witness ==
    /\ trades # <<>>
    /\ \E o, u \in Book :
          /\ o.id \in {LastTrade.buy.id, LastTrade.sell.id}
          /\ o.timestamp < LastTrade.during
          /\ u.id \notin {LastTrade.buy.id, LastTrade.sell.id}
          /\ u.timestamp < LastTrade.during

\* C16: in every trade the execution price is at most the limitPrice of a
\* limit buy and at least the limitPrice of a limit sell.
C16_LimitProtection ==
    \A i \in 1..Len(trades) :
        LET t == trades[i] IN
        /\ ~t.buy.isMarketOrder => t.executionPrice <= t.buy.limitPrice
        /\ ~t.sell.isMarketOrder => t.executionPrice >= t.sell.limitPrice

\* A limit buy has traded with a limit sell of lower price, a limit buy
\* with a market sell and a limit sell with a market buy, the last two
\* when lastTradedPrice was another price than the limit.
C16_Witness ==
    /\ \E i \in 1..Len(trades) :
          /\ ~trades[i].buy.isMarketOrder /\ ~trades[i].sell.isMarketOrder
          /\ trades[i].buy.limitPrice > trades[i].sell.limitPrice
    /\ \E i \in 1..Len(trades) :
          /\ ~trades[i].buy.isMarketOrder /\ trades[i].sell.isMarketOrder
          /\ trades[i].priorPrice # trades[i].buy.limitPrice
    /\ \E i \in 1..Len(trades) :
          /\ trades[i].buy.isMarketOrder /\ ~trades[i].sell.isMarketOrder
          /\ trades[i].priorPrice # trades[i].sell.limitPrice

\* Every limit price submitted so far is non-negative.
NonNegativePrices == \A i \in 1..Len(submitted) : submitted[i].limitPrice >= 0

\* C17: with non-negative limit prices, when a submit has returned and the
\* bid queue holds an order, no market sell rests in the ask queue.
C17_MarketSellNeverWaits ==
    (NonNegativePrices /\ pc = "idle" /\ buyOrders # {}) =>
        \A a \in sellOrders : ~a.isMarketOrder

\* A market sell has traded ahead of a limit sell that arrived before it
\* and still rests, and the submit has returned with a bid resting.
C17_Witness ==
    /\ pc = "idle"
    /\ buyOrders # {}
    /\ \E i \in 1..Len(trades) :
          /\ trades[i].sell.isMarketOrder
          /\ \E a \in sellOrders : a.timestamp < trades[i].sell.timestamp

\* C18: with non-negative limit prices, when a submit has returned, every
\* resting limit buy is priced below every resting limit sell.
C18_LimitBookUncrossed ==
    (NonNegativePrices /\ pc = "idle") =>
        \A b \in buyOrders, a \in sellOrders :
            (~b.isMarketOrder /\ ~a.isMarketOrder) => b.limitPrice < a.limitPrice

\* A sweep has traded and returned with limit orders on both sides, one of
\* them not the best of its side.
C18_Witness ==
    /\ pc = "idle"
    /\ SweepTrades # {}
    /\ \E b \in buyOrders, a \in sellOrders :
          /\ ~b.isMarketOrder /\ ~a.isMarketOrder
          /\ b # Top(buyOrders) \/ a # Top(sellOrders)

\* The quantity of the order with this id that the trades of earlier sweeps
\* have filled.
RECURSIVE FilledBefore(_, _)
FilledBefore(n, id) ==
    IF n = 0 THEN 0
    ELSE (IF trades[n].during < timestamp /\ id \in {trades[n].buy.id, trades[n].sell.id}
          THEN trades[n].tradedQuantity ELSE 0)
         + FilledBefore(n - 1, id)

\* The orders resting when the latest sweep started.
RestingAtSweepStart ==
    {i \in 1..Len(submitted) :
        FilledBefore(Len(trades), submitted[i].id) < submitted[i].quantity}

\* C19: every trade fills at least one of its two orders completely, so at
\* most one of them is reinserted and the number of resting orders drops by
\* at least one; a sweep executes at most as many trades as orders rested
\* when it started.
C19_TradeCompletesAnOrder ==
    /\ [](\A i \in 1..Len(trades) :
            trades[i].tradedQuantity
                \in {trades[i].buy.quantity, trades[i].sell.quantity})
    /\ [][TradeExecutes =>
            /\ Cardinality(Book') <= Cardinality(Book) - 1
            /\ Cardinality({o \in Book' :
                   o.id \in {NewTrade.buy.id, NewTrade.sell.id}}) <= 1
         ]_vars
    /\ [](Cardinality(SweepTrades) + Cardinality(Book)
            <= Cardinality(RestingAtSweepStart))

\* One sweep has executed two trades, one that reinserted a remainder and
\* one that filled both orders.
C19_Witness ==
    /\ Cardinality(SweepTrades) >= 2
    /\ \E i \in SweepTrades : trades[i].buy.quantity # trades[i].sell.quantity
    /\ \E i \in SweepTrades : trades[i].buy.quantity = trades[i].sell.quantity

=============================================================================
